---- MODULE Spec2Model ----
(***************************************************************************)
(* Model of robinhood2quicken/export_mint_csv.py: the export pipeline of   *)
(* main() (login, fetch dividends, fetch trades, normalise to Mint rows,   *)
(* optional date filter, CSV write) and the pure helpers it is built from. *)
(*                                                                         *)
(* Python values.  A str is a TLA+ string; its characters are read with    *)
(* SubSeq, Len and \o.  A list is a tuple.  A dict with fixed keys is a    *)
(* record, and a Mint row (whose keys contain blanks) is a function from   *)
(* the header strings.  Where a str, a bool or None may stand, None, True  *)
(* and False are the strings "<None>", "<True>" and "<False>": no str of   *)
(* the model contains "<".  Where a list or None may stand, the value is a *)
(* record [is_none, items].  A function that may raise returns a record   *)
(* [raised, value], raised being "" or the exception's name.               *)
(***************************************************************************)
EXTENDS Integers, Sequences, FiniteSets, TLC

VARIABLES
    account,        \* the remote account: credentials_ok, orders, dividends
    args,           \* CommandLine.args
    disk,           \* path -> content of the file at that path
    pc,             \* position of main()
    logged_in,      \* result of Robinhood.login
    calls,          \* every call made on the Robinhood handle, in order
    dividend_data,  \* main()'s dividend_data
    trade_data,     \* main()'s trade_data
    mint_data,      \* main()'s mint_data
    opened,         \* every path opened for writing, in order
    stderr,         \* the messages printed on stderr, in order
    exception       \* the exception that ended main(), "" when none did

vars == <<account, args, disk, pc, logged_in, calls, dividend_data, trade_data,
          mint_data, opened, stderr, exception>>

----------------------------------------------------------------------------
(* Python values *)

None == "<None>"

PyTrue == "<True>"

PyFalse == "<False>"

NoException == ""

IndexError == "IndexError"

ValueError == "ValueError"

AssertionError == "AssertionError"

OSError == "OSError"

Returns(v) == [raised |-> NoException, value |-> v]

Raises(e) == [raised |-> e, value |-> <<>>]

NoneList == [is_none |-> TRUE, items |-> <<>>]

PyList(l) == [is_none |-> FALSE, items |-> l]

\* bool(v) of None, a bool or a str
Truthy(v) == v # None /\ v # PyFalse /\ Len(v) > 0

\* bool(v) of None or a list
TruthyList(v) == ~v.is_none /\ Len(v.items) > 0

Min(S) == CHOOSE x \in S : \A y \in S : x <= y

\* s[i] of a str, 1-based
Char(s, i) == SubSeq(s, i, i)

\* s.split(sep) for a one-character sep
RECURSIVE Split(_, _)
Split(s, sep) ==
    LET at == {i \in 1..Len(s) : Char(s, i) = sep}
    IN  IF at = {} THEN <<s>>
        ELSE <<SubSeq(s, 1, Min(at) - 1)>>
                 \o Split(SubSeq(s, Min(at) + 1, Len(s)), sep)

\* sep.join(parts)
RECURSIVE Join(_, _)
Join(parts, sep) ==
    IF Len(parts) = 0 THEN ""
    ELSE IF Len(parts) = 1 THEN parts[1]
    ELSE parts[1] \o sep \o Join(Tail(parts), sep)

Digits == <<"0", "1", "2", "3", "4", "5", "6", "7", "8", "9">>

IsDigit(c) == \E k \in 1..10 : Digits[k] = c

DigitVal(c) == (CHOOSE k \in 1..10 : Digits[k] = c) - 1

\* whether int(s) returns: s is a non-empty run of decimal digits (the model's
\* strings hold no sign, blank or underscore, which int() would also accept)
IntOk(s) == Len(s) > 0 /\ \A i \in 1..Len(s) : IsDigit(Char(s, i))

\* int(s) where IntOk(s)
RECURSIVE PyInt(_)
PyInt(s) ==
    IF Len(s) = 0 THEN 0
    ELSE 10 * PyInt(SubSeq(s, 1, Len(s) - 1)) + DigitVal(Char(s, Len(s)))

----------------------------------------------------------------------------
(* datetime.datetime(year, month, day) and its order *)

IsLeap(y) == (y % 4 = 0 /\ y % 100 # 0) \/ y % 400 = 0

DaysInMonth(y, m) ==
    IF m = 2 THEN (IF IsLeap(y) THEN 29 ELSE 28)
    ELSE IF m \in {4, 6, 9, 11} THEN 30 ELSE 31

\* whether datetime(y, m, d) returns; it raises ValueError otherwise
DatetimeOk(y, m, d) ==
    /\ y >= 1 /\ y <= 9999
    /\ m >= 1 /\ m <= 12
    /\ d >= 1 /\ d <= DaysInMonth(y, m)

\* a > b of two datetimes <<year, month, day>>
DatetimeGreater(a, b) ==
    \/ a[1] > b[1]
    \/ a[1] = b[1] /\ a[2] > b[2]
    \/ a[1] = b[1] /\ a[2] = b[2] /\ a[3] > b[3]

----------------------------------------------------------------------------
(* float, float * float, numpy.round(x, 2) and str: a float is the integer *)
(* number of its thousandths (the model's decimals are prices with at most *)
(* three fractional digits and whole quantities, so products are exact;    *)
(* binary rounding error is not modelled)                                  *)

RECURSIVE Pow10(_)
Pow10(n) == IF n = 0 THEN 1 ELSE 10 * Pow10(n - 1)

\* float(s) of a decimal "ddd" or "ddd.ddd"
PyFloat(s) ==
    LET p == Split(s, ".")
    IN  IF Len(p) = 1 THEN PyInt(p[1]) * Pow10(3)
        ELSE PyInt(p[1]) * Pow10(3) + PyInt(p[2]) * Pow10(3 - Len(p[2]))

\* a * b of two floats
FloatMul(a, b) == (a * b) \div Pow10(3)

\* numpy.round(x, 2): to the nearest hundredth, ties to the even one
NpRound2(x) ==
    LET unit == Pow10(1)
        q == x \div unit
        r == x % unit
    IN  IF 2 * r > unit \/ (2 * r = unit /\ q % 2 = 1) THEN (q + 1) * unit
        ELSE q * unit

\* str(n) of an int n >= 0
RECURSIVE IntStr(_)
IntStr(n) == IF n < 10 THEN Digits[n + 1] ELSE IntStr(n \div 10) \o Digits[(n % 10) + 1]

\* n as exactly w digits, zeros in front
RECURSIVE ZeroPad(_, _)
ZeroPad(n, w) == IF w = 0 THEN "" ELSE ZeroPad(n \div 10, w - 1) \o Digits[(n % 10) + 1]

\* the w fractional digits f of a float, without the trailing zeros
RECURSIVE FracStr(_, _)
FracStr(f, w) ==
    IF f = 0 THEN ""
    ELSE IF f % 10 = 0 THEN FracStr(f \div 10, w - 1)
    ELSE ZeroPad(f, w)

\* str(x) of a float x >= 0: "1500.05", "24.0"
FloatStr(x) ==
    LET frac == FracStr(x % Pow10(3), 3)
    IN  IntStr(x \div Pow10(3)) \o "." \o (IF frac = "" THEN "0" ELSE frac)

----------------------------------------------------------------------------
(* The Robinhood handle: every call is logged; the account holds what the  *)
(* calls return                                                            *)

Call(op, arg) == [op |-> op, arg |-> arg]

\* robinhood_api.get_custom_endpoint(ref)['symbol']
InstrumentSymbol(ref) ==
    CASE ref = "instruments/1/" -> "AAPL"
      [] ref = "instruments/2/" -> "MSFT"
      [] OTHER -> "TSLA"

MINT_HEADERS ==
    <<"Date", "Description Original", "Description", "Amount", "Transaction Type",
      "Category", "Account Name", "Labels", "Notes">>

\* TradeLoop reading the last execution of an order instead of the first
RECURSIVE TradeLoopLastExecution(_)
TradeLoopLastExecution(orders) ==
    IF Len(orders) = 0 THEN <<>>
    ELSE LET order == Head(orders)
             last == order.executions[Len(order.executions)]
             data == [ticker   |-> InstrumentSymbol(order.instrument),
                      side     |-> order.side,
                      quantity |-> last.quantity,
                      price    |-> last.price,
                      Date     |-> Split(last.timestamp, "T")[1],
                      cost     |-> FloatMul(PyFloat(last.price),
                                            PyFloat(last.quantity))]
         IN  (IF Len(order.executions) > 0 THEN <<data>> ELSE <<>>)
                 \o TradeLoopLastExecution(Tail(orders))

\* the loop of get_robinhood_trade_data over orders: the records appended
RECURSIVE TradeLoop(_)
TradeLoop(orders) ==
    IF Len(orders) = 0 THEN <<>>
    ELSE LET order == Head(orders)
             ticker == InstrumentSymbol(order.instrument)
             first == order.executions[1]
             data == [ticker   |-> ticker,
                      side     |-> order.side,
                      quantity |-> first.quantity,
                      price    |-> first.price,
                      Date     |-> Split(first.timestamp, "T")[1],
                      cost     |-> FloatMul(PyFloat(first.price),
                                            PyFloat(first.quantity))]
         IN  (IF Len(order.executions) > 0 THEN <<data>> ELSE <<>>)
                 \o TradeLoop(Tail(orders))

\* get_robinhood_trade_data(robinhood_api): the calls it makes on the handle,
\* in order, and the list it returns
get_robinhood_trade_data(api) ==
    [calls |-> <<Call("order_history", "")>>
                   \o [i \in 1..Len(api.orders) |->
                          Call("get_custom_endpoint", api.orders[i].instrument)],
     data  |-> TradeLoop(api.orders)]

\* DividendLoop looking the instrument up before it tests paid_at
RECURSIVE DividendLoopLookupFirst(_)
DividendLoopLookupFirst(dividends) ==
    IF Len(dividends) = 0 THEN [calls |-> <<>>, data |-> <<>>]
    ELSE LET dividend == Head(dividends)
             rest == DividendLoopLookupFirst(Tail(dividends))
             data == [amount |-> dividend.amount,
                      Date   |-> dividend.payable_date,
                      ticker |-> InstrumentSymbol(dividend.instrument)]
         IN  [calls |-> <<Call("get_custom_endpoint", dividend.instrument)>>
                            \o rest.calls,
              data  |-> (IF Truthy(dividend.paid_at) THEN <<data>> ELSE <<>>)
                            \o rest.data]

\* the loop of get_robinhood_dividend_data over dividends: the lookups made
\* and the records appended
RECURSIVE DividendLoop(_)
DividendLoop(dividends) ==
    IF Len(dividends) = 0 THEN [calls |-> <<>>, data |-> <<>>]
    ELSE LET dividend == Head(dividends)
             paid_at == dividend.paid_at
             rest == DividendLoop(Tail(dividends))
             data == [amount |-> dividend.amount,
                      Date   |-> dividend.payable_date,
                      ticker |-> InstrumentSymbol(dividend.instrument)]
         IN  IF Truthy(paid_at)
             THEN [calls |-> <<Call("get_custom_endpoint", dividend.instrument)>>
                                 \o rest.calls,
                   data  |-> <<data>> \o rest.data]
             ELSE rest

\* get_robinhood_dividend_data(robinhood_api): the calls it makes on the
\* handle, in order, and the list it returns
get_robinhood_dividend_data(api) ==
    LET loop == DividendLoop(api.dividends)
    IN  [calls |-> <<Call("dividends", "")>> \o loop.calls,
         data  |-> loop.data]

----------------------------------------------------------------------------
(* The normaliser *)

\* convert_robinhood_date(robinhood_date): new_date[1] or new_date[2] of a
\* shorter list raises IndexError
convert_robinhood_date(robinhood_date) ==
    LET new_date == Split(robinhood_date, "-")
    IN  IF Len(new_date) < 3 THEN Raises(IndexError)
        ELSE Returns(Join(<<new_date[2], new_date[3], new_date[1]>>, "/"))

\* TradeRow with Labels and Notes exchanged
TradeRowSwapped(line) ==
    ("Date" :> convert_robinhood_date(line.Date).value)
        @@ ("Description Original" :> line.ticker)
        @@ ("Description" :> "Investments:" \o line.side)
        @@ ("Amount" :> NpRound2(line.cost))
        @@ ("Transaction Type" :> "credit")
        @@ ("Category" :> line.side)
        @@ ("Account Name" :> None)
        @@ ("Labels" :> line.price)
        @@ ("Notes" :> line.quantity)

\* the dict appended for a trade
TradeRow(line) ==
    ("Date" :> convert_robinhood_date(line.Date).value)
        @@ ("Description Original" :> line.ticker)
        @@ ("Description" :> "Investments:" \o line.side)
        @@ ("Amount" :> NpRound2(line.cost))
        @@ ("Transaction Type" :> "credit")
        @@ ("Category" :> line.side)
        @@ ("Account Name" :> None)
        @@ ("Labels" :> line.quantity)
        @@ ("Notes" :> line.price)

\* the dict appended for a dividend
DividendRow(line) ==
    ("Date" :> convert_robinhood_date(line.Date).value)
        @@ ("Description Original" :> line.ticker)
        @@ ("Description" :> "Investments:Dividend Income")
        @@ ("Amount" :> NpRound2(PyFloat(line.amount)))
        @@ ("Transaction Type" :> "credit")
        @@ ("Category" :> None)
        @@ ("Account Name" :> None)
        @@ ("Labels" :> None)
        @@ ("Notes" :> None)

\* parse_robinhood_data_to_mint appending the dividend rows before the trade
\* rows
parse_dividends_first(trades, dividends) ==
    LET t == IF TruthyList(trades) THEN trades.items ELSE <<>>
        d == IF TruthyList(dividends) THEN dividends.items ELSE <<>>
        bad == {i \in 1..Len(t) : convert_robinhood_date(t[i].Date).raised # NoException}
                   \cup {Len(t) + i : i \in {j \in 1..Len(d) :
                             convert_robinhood_date(d[j].Date).raised # NoException}}
    IN  IF bad # {} THEN Raises(IndexError)
        ELSE Returns([i \in 1..Len(d) |-> DividendRow(d[i])]
                         \o [i \in 1..Len(t) |-> TradeRow(t[i])])

\* parse_robinhood_data_to_mint(trade_data, dividend_data)
parse_robinhood_data_to_mint(trades, dividends) ==
    LET t == IF TruthyList(trades) THEN trades.items ELSE <<>>
        d == IF TruthyList(dividends) THEN dividends.items ELSE <<>>
        bad == {i \in 1..Len(t) : convert_robinhood_date(t[i].Date).raised # NoException}
                   \cup {Len(t) + i : i \in {j \in 1..Len(d) :
                             convert_robinhood_date(d[j].Date).raised # NoException}}
    IN  IF bad # {} THEN Raises(IndexError)
        ELSE Returns([i \in 1..Len(t) |-> TradeRow(t[i])]
                         \o [i \in 1..Len(d) |-> DividendRow(d[i])])

----------------------------------------------------------------------------
(* The filter *)

\* whether m, d, y = s.split("/") and datetime(int(y), int(m), int(d)) return;
\* each raises ValueError otherwise
DateParses(s) ==
    LET p == Split(s, "/")
    IN  /\ Len(p) = 3
        /\ IntOk(p[1]) /\ IntOk(p[2]) /\ IntOk(p[3])
        /\ DatetimeOk(PyInt(p[3]), PyInt(p[1]), PyInt(p[2]))

\* datetime(int(y), int(m), int(d)) of m, d, y = s.split("/")
ParseDate(s) ==
    LET p == Split(s, "/")
    IN  <<PyInt(p[3]), PyInt(p[1]), PyInt(p[2])>>

\* filter_by_date comparing month, day, year in the order of the string
filter_by_date_month_first(date, data) ==
    IF ~DateParses(date) THEN Raises(ValueError)
    ELSE IF \E i \in 1..Len(data) : ~DateParses(data[i]["Date"]) THEN Raises(ValueError)
    ELSE LET MonthFirst(t) == <<t[2], t[3], t[1]>>
             filter_day == MonthFirst(ParseDate(date))
             Keep(transaction) ==
                 DatetimeGreater(MonthFirst(ParseDate(transaction["Date"])), filter_day)
         IN  Returns(SelectSeq(data, Keep))

\* filter_by_date(date, data), key = "Date"
filter_by_date(date, data) ==
    IF ~DateParses(date) THEN Raises(ValueError)
    ELSE IF \E i \in 1..Len(data) : ~DateParses(data[i]["Date"]) THEN Raises(ValueError)
    ELSE LET filter_day == ParseDate(date)
             Keep(transaction) ==
                 DatetimeGreater(ParseDate(transaction["Date"]), filter_day)
         IN  Returns(SelectSeq(data, Keep))

----------------------------------------------------------------------------
(* The writer.  A file is [exists, lines]; a line is the tuple of its      *)
(* cells (the model's strings hold no comma, quote or line break, so no    *)
(* cell is quoted)                                                         *)

NoFile == [exists |-> FALSE, lines |-> <<>>]

File(lines) == [exists |-> TRUE, lines |-> lines]

\* s.rfind(c), 1-based: 0 when c is not in s
RFind(s, c) ==
    LET at == {i \in 1..Len(s) : Char(s, i) = c}
    IN  IF at = {} THEN 0 ELSE CHOOSE i \in at : \A j \in at : j <= i

\* os.path.splitext(p): the extension starts at the last dot of the file name,
\* unless only dots stand before it in the file name
splitext(p) ==
    LET sepIndex == RFind(p, "/")
        dotIndex == RFind(p, ".")
        stem == {i \in (sepIndex + 1)..(dotIndex - 1) : Char(p, i) # "."}
    IN  IF dotIndex > sepIndex /\ stem # {}
        THEN <<SubSeq(p, 1, dotIndex - 1), SubSeq(p, dotIndex, Len(p))>>
        ELSE <<p, "">>

\* what csv.writer writes for one value: nothing for None, str(v) otherwise
CsvCell(key, v) ==
    IF key = "Amount" THEN FloatStr(v)
    ELSE IF v = None THEN "" ELSE v

\* DictWriter.writerow(row): the cells in the order of fieldnames
CsvLine(header, row) == [i \in 1..Len(header) |-> CsvCell(header[i], row[header[i]])]

\* everything write_csv writes when nothing fails: writeheader(), then
\* writerow(row) for each row
CsvLines(header, data) ==
    <<header>> \o [i \in 1..Len(data) |-> CsvLine(header, data[i])]

\* write_csv opening the file before it tests the extension
write_csv_open_first(header, data, output_path, d) ==
    LET lines == CsvLines(header, data)
        truncated == [d EXCEPT ![output_path] = File(<<>>)]
    IN  {[raised |-> OSError, disk |-> d, opened |-> <<>>]}
            \cup (IF splitext(output_path)[2] # ".csv"
                  THEN {[raised |-> AssertionError, disk |-> truncated,
                         opened |-> <<output_path>>]}
                  ELSE {[raised |-> IF n = Len(lines) THEN NoException ELSE OSError,
                         disk   |-> [d EXCEPT ![output_path] = File(SubSeq(lines, 1, n))],
                         opened |-> <<output_path>>] : n \in 0..Len(lines)})

\* write_csv(header, data, output_path) on the disk d: its possible outcomes.
\* The assert comes first; open(output_path, 'w') creates or truncates the
\* file, or raises OSError and leaves it; a write may raise OSError, and the
\* with block then closes the file holding the lines written before it.
write_csv(header, data, output_path, d) ==
    LET lines == CsvLines(header, data)
    IN  IF splitext(output_path)[2] # ".csv"
        THEN {[raised |-> AssertionError, disk |-> d, opened |-> <<>>]}
        ELSE {[raised |-> OSError, disk |-> d, opened |-> <<>>]}
                 \cup {[raised |-> IF n = Len(lines) THEN NoException ELSE OSError,
                        disk   |-> [d EXCEPT ![output_path] = File(SubSeq(lines, 1, n))],
                        opened |-> <<output_path>>] : n \in 0..Len(lines)}

----------------------------------------------------------------------------
(* The inputs of a run: the remote account, the command line, the disk *)

MaxOrders == 2

MaxDividends == 2

\* the lists over S of at most n elements
SeqsUpTo(S, n) == UNION {[1..k -> S] : k \in 0..n}

Execution(quantity, price, timestamp) ==
    [quantity |-> quantity, price |-> price, timestamp |-> timestamp]

Executions ==
    {Execution("10", "15.005", "2020-01-15T14:30:00.000000Z"),
     Execution("2", "12.345", "2019-12-01T09:00:00.000000Z")}

\* an order of order_history()["results"]
Orders ==
    [instrument : {"instruments/1/", "instruments/2/"},
     side       : {"buy", "sell"},
     executions : SeqsUpTo(Executions, 1)
                      \cup {e \in [1..2 -> Executions] : e[1] # e[2]}]

\* a dividend of dividends()["results"]
Dividends ==
    [instrument   : {"instruments/1/", "instruments/2/"},
     amount       : {"5.04"},
     payable_date : {"2020-01-15", "2020-02-29"},
     paid_at      : {None, "2020-01-16T00:00:00.000000Z"}]

\* paid dividends whose payable_date is not YYYY-MM-DD
OddDividends ==
    [instrument   : {"instruments/2/"},
     amount       : {"0.125"},
     payable_date : {"2020-01", "20200115", "2020-01-15-99", "2020-13-01"},
     paid_at      : {"2020-01-16T00:00:00.000000Z"}]

\* paid dividends on both sides of the cutoff dates
DatedDividends ==
    [instrument   : {"instruments/2/"},
     amount       : {"0.125"},
     payable_date : {"2019-12-01", "2020-01-15", "2020-02-29", "2020-13-01"},
     paid_at      : {"2020-01-16T00:00:00.000000Z"}]

SomeOrders ==
    <<[instrument |-> "instruments/1/", side |-> "buy",
       executions |-> <<Execution("10", "15.005", "2020-01-15T14:30:00.000000Z"),
                        Execution("2", "12.345", "2019-12-01T09:00:00.000000Z")>>],
      [instrument |-> "instruments/2/", side |-> "sell",
       executions |-> <<Execution("2", "12.345", "2019-12-01T09:00:00.000000Z")>>]>>

SomeDividends ==
    <<[instrument |-> "instruments/2/", amount |-> "5.04",
       payable_date |-> "2020-02-29", paid_at |-> "2020-03-01T00:00:00.000000Z"],
      [instrument |-> "instruments/1/", amount |-> "0.125",
       payable_date |-> "2020-01-15", paid_at |-> None]>>

Account(ok, orders, dividends) ==
    [credentials_ok |-> ok, orders |-> orders, dividends |-> dividends]

\* the value argparse stores for --trades or --dividends: the default True,
\* or the string given
FlagValues == {PyTrue, "False", ""}

\* the value stored for --date: the default False, or the string given
DateValues ==
    {PyFalse, "01/15/2020", "1/15/2020", "12/01/2019", "12/31/2019",
     "2020-01-15", "02/30/2020"}

\* the value stored for --output: the default False, or the string given
OutputValues == {PyFalse, "out.csv", "out.txt", ".csv", "old.csv/out"}

DEFAULT_OUTPUT == "robinhood_output.csv"

Paths == (OutputValues \ {PyFalse}) \cup {DEFAULT_OUTPUT}

Args(trades, dividends, date, output) ==
    [username |-> "user", password |-> "secret", trades |-> trades,
     dividends |-> dividends, date |-> date, output |-> output]

NoFiles == [p \in Paths |-> NoFile]

OlderFiles == [p \in Paths |-> File(<<<<"older export">>>>)]

\* the disk before the run: no file, or an older export at every path
Disks == {NoFiles, OlderFiles}

\* every command line, on one account, with and without older files
InitCommandLines ==
    /\ account \in {Account(ok, SomeOrders, SomeDividends) : ok \in BOOLEAN}
    /\ args \in {Args(t, d, date, o) : t \in FlagValues, d \in FlagValues,
                                        date \in {PyFalse, "12/31/2019"},
                                        o \in OutputValues}
    /\ disk \in Disks

\* every order history
InitOrders ==
    /\ account \in {Account(TRUE, o, SomeDividends) : o \in SeqsUpTo(Orders, MaxOrders)}
    /\ args \in {Args(PyTrue, PyTrue, date, PyFalse) : date \in {PyFalse, "12/31/2019"}}
    /\ disk = OlderFiles

\* every dividend history
InitDividends ==
    /\ account \in {Account(TRUE, SomeOrders, d) :
                        d \in SeqsUpTo(Dividends \cup OddDividends, MaxDividends)}
    /\ args \in {Args(PyTrue, PyTrue, PyFalse, PyFalse)}
    /\ disk = OlderFiles

\* every cutoff date
InitDates ==
    /\ account \in {Account(TRUE, o, d) : o \in SeqsUpTo(Orders, 1),
                                          d \in SeqsUpTo(DatedDividends, MaxDividends)}
    /\ args \in {Args(PyTrue, PyTrue, date, PyFalse) : date \in DateValues}
    /\ disk = OlderFiles

Init ==
    /\ InitCommandLines \/ InitOrders \/ InitDividends \/ InitDates
    /\ pc = "login"
    /\ logged_in = FALSE
    /\ calls = <<>>
    /\ dividend_data = NoneList
    /\ trade_data = NoneList
    /\ mint_data = <<>>
    /\ opened = <<>>
    /\ stderr = <<>>
    /\ exception = NoException

----------------------------------------------------------------------------
(* main() *)

\* the exception of a call on the handle that fails (network, HTTP status)
RequestException == "RequestException"

\* lines 208-214: the command line, the handle, login; a false result prints
\* the message and the usage, and do_usage_and_die returns 2 to main, which
\* goes on
Login ==
    /\ pc = "login"
    /\ calls' = Append(calls, Call("login", args.username))
    /\ logged_in' = account.credentials_ok
    /\ stderr' = IF ~logged_in'
                 THEN stderr \o <<"Username or Password is incorrect", "usage">>
                 ELSE stderr
    /\ pc' = "dividends"
    /\ UNCHANGED <<account, args, disk, dividend_data, trade_data, mint_data,
                   opened, exception>>

\* lines 217-218
FetchDividends ==
    /\ pc = "dividends"
    /\ LET r == get_robinhood_dividend_data(account)
       IN  \/ /\ ~Truthy(args.dividends)
              /\ pc' = "trades"
              /\ UNCHANGED <<calls, dividend_data, exception>>
           \/ /\ Truthy(args.dividends)
              /\ calls' = calls \o r.calls
              /\ dividend_data' = PyList(r.data)
              /\ pc' = "trades"
              /\ UNCHANGED exception
           \/ /\ Truthy(args.dividends)
              /\ \E k \in 1..Len(r.calls) : calls' = calls \o SubSeq(r.calls, 1, k)
              /\ exception' = RequestException
              /\ pc' = "crashed"
              /\ UNCHANGED dividend_data
    /\ UNCHANGED <<account, args, disk, logged_in, trade_data, mint_data, opened,
                   stderr>>

\* lines 220-221
FetchTrades ==
    /\ pc = "trades"
    /\ LET r == get_robinhood_trade_data(account)
       IN  \/ /\ ~Truthy(args.trades)
              /\ pc' = "parse"
              /\ UNCHANGED <<calls, trade_data, exception>>
           \/ /\ Truthy(args.trades)
              /\ calls' = calls \o r.calls
              /\ trade_data' = PyList(r.data)
              /\ pc' = "parse"
              /\ UNCHANGED exception
           \/ /\ Truthy(args.trades)
              /\ \E k \in 1..Len(r.calls) : calls' = calls \o SubSeq(r.calls, 1, k)
              /\ exception' = RequestException
              /\ pc' = "crashed"
              /\ UNCHANGED trade_data
    /\ UNCHANGED <<account, args, disk, logged_in, dividend_data, mint_data,
                   opened, stderr>>

\* line 224
Parse ==
    /\ pc = "parse"
    /\ LET r == parse_robinhood_data_to_mint(trade_data, dividend_data)
       IN  IF r.raised # NoException
           THEN /\ exception' = r.raised
                /\ pc' = "crashed"
                /\ UNCHANGED mint_data
           ELSE /\ mint_data' = r.value
                /\ pc' = "filter"
                /\ UNCHANGED exception
    /\ UNCHANGED <<account, args, disk, logged_in, calls, dividend_data,
                   trade_data, opened, stderr>>

\* lines 227-228
Filter ==
    /\ pc = "filter"
    /\ \/ /\ ~Truthy(args.date)
          /\ pc' = "write"
          /\ UNCHANGED <<mint_data, exception>>
       \/ /\ Truthy(args.date)
          /\ LET r == filter_by_date(args.date, mint_data)
             IN  IF r.raised # NoException
                 THEN /\ exception' = r.raised
                      /\ pc' = "crashed"
                      /\ UNCHANGED mint_data
                 ELSE /\ mint_data' = r.value
                      /\ pc' = "write"
                      /\ UNCHANGED exception
    /\ UNCHANGED <<account, args, disk, logged_in, calls, dividend_data,
                   trade_data, opened, stderr>>

\* the path main() writes to
OutputPath == IF Truthy(args.output) THEN args.output ELSE DEFAULT_OUTPUT

\* lines 231-234
Write ==
    /\ pc = "write"
    /\ \E o \in write_csv(MINT_HEADERS, mint_data, OutputPath, disk) :
          /\ disk' = o.disk
          /\ opened' = opened \o o.opened
          /\ exception' = o.raised
          /\ pc' = IF o.raised = NoException THEN "timing" ELSE "crashed"
    /\ UNCHANGED <<account, args, logged_in, calls, dividend_data, trade_data,
                   mint_data, stderr>>

\* lines 237-238, then raise SystemExit at line 243
Timing ==
    /\ pc = "timing"
    /\ stderr' = Append(stderr, "export_mint_csv.py took {} seconds")
    /\ pc' = "done"
    /\ UNCHANGED <<account, args, disk, logged_in, calls, dividend_data,
                   trade_data, mint_data, opened, exception>>

Next == Login \/ FetchDividends \/ FetchTrades \/ Parse \/ Filter \/ Write \/ Timing

Spec == Init /\ [][Next]_vars

----------------------------------------------------------------------------
(* Properties *)

\* main() has gone past the statement at the given position
AfterDividends == pc \in {"trades", "parse", "filter", "write", "timing", "done"}

AfterTrades == pc \in {"parse", "filter", "write", "timing", "done"}

AfterParse == pc \in {"filter", "write", "timing", "done"}

AfterFilter ==
    \/ pc \in {"write", "timing", "done"}
    \/ pc = "crashed" /\ exception \in {AssertionError, OSError}

AfterWrite ==
    \/ pc \in {"timing", "done"}
    \/ pc = "crashed" /\ exception \in {AssertionError, OSError}

Ended == pc \in {"done", "crashed"}

Called(op) == \E i \in 1..Len(calls) : calls[i].op = op

\* C1: once login has returned a false value, no order_history, dividends or
\* get_custom_endpoint call is made and no file is opened for writing.
C1_FailedLoginAborts ==
    (pc # "login" /\ ~logged_in) =>
        /\ ~Called("order_history")
        /\ ~Called("dividends")
        /\ ~Called("get_custom_endpoint")
        /\ opened = <<>>

\* the calendar date of an MM/DD/YYYY string as one number, year first
DayNumber(s) ==
    LET p == Split(s, "/")
    IN  PyInt(p[3]) * 10000 + PyInt(p[1]) * 100 + PyInt(p[2])

\* a well-formed MM/DD/YYYY date: two, two and four digits, a real month and
\* a day the month has
WellFormedDate(s) ==
    /\ Len(s) = 10
    /\ Char(s, 3) = "/" /\ Char(s, 6) = "/"
    /\ \A i \in {1, 2, 4, 5, 7, 8, 9, 10} : IsDigit(Char(s, i))
    /\ LET m == PyInt(SubSeq(s, 1, 2))
           d == PyInt(SubSeq(s, 4, 5))
           y == PyInt(SubSeq(s, 7, 10))
       IN  /\ y >= 1 /\ m \in 1..12 /\ d >= 1
           /\ d <= (IF m = 2 THEN (IF y % 4 = 0 /\ (y % 100 # 0 \/ y % 400 = 0)
                                   THEN 29 ELSE 28)
                    ELSE IF m \in {4, 6, 9, 11} THEN 30 ELSE 31)

\* the rows parse_robinhood_data_to_mint returned, before the filter
Unfiltered == parse_robinhood_data_to_mint(trade_data, dividend_data).value

\* C2: with a well-formed cutoff D and well-formed row dates, filter_by_date
\* returns, and what it returns is exactly the rows whose calendar date is
\* strictly later than D, in their original order.
C2_FilterKeepsStrictlyLater ==
    LET Later(row) == DayNumber(row["Date"]) > DayNumber(args.date)
    IN  /\ (AfterFilter /\ Truthy(args.date)) =>
               mint_data = SelectSeq(Unfiltered, Later)
        /\ (pc = "crashed" /\ exception = ValueError) =>
               \/ ~WellFormedDate(args.date)
               \/ \E i \in 1..Len(Unfiltered) : ~WellFormedDate(Unfiltered[i]["Date"])

\* the filter ran on a row dated on the cutoff and a row dated before it whose
\* string is greater, and dropped both; it kept a row dated after the cutoff
C2_Witness ==
    /\ pc = "write"
    /\ args.date = "01/15/2020"
    /\ \E i \in 1..Len(Unfiltered) : Unfiltered[i]["Date"] = "01/15/2020"
    /\ \E i \in 1..Len(Unfiltered) : Unfiltered[i]["Date"] = "12/01/2019"
    /\ Len(mint_data) = 1
    /\ mint_data[1]["Date"] = "02/29/2020"

\* C3: when the run has ended, either no file was opened for writing and the
\* disk is as it was, or the output file holds the header and every eligible
\* row.
C3_AllOrNothing ==
    Ended =>
        \/ opened = <<>> /\ disk \in Disks
        \/ /\ AfterFilter
           /\ disk[OutputPath] = File(CsvLines(MINT_HEADERS, mint_data))

\* the dates parse_robinhood_data_to_mint hands to convert_robinhood_date
ConvertedDates ==
    {trade_data.items[i].Date : i \in 1..Len(trade_data.items)}
        \cup {dividend_data.items[i].Date : i \in 1..Len(dividend_data.items)}

\* C4: convert_robinhood_date returns no date for an input that does not
\* split on "-" into exactly three segments: once the conversions have
\* returned, every date converted had exactly three.
C4_RejectsWrongSegmentCount ==
    AfterParse => \A date \in ConvertedDates : Len(Split(date, "-")) = 3

\* a flag value that means true to a reader of the command line
FlagIsTrue(v) == v \in {PyTrue, "True", "true"}

\* C5: trades are fetched if and only if the trades flag is true, dividends if
\* and only if the dividends flag is true.
C5_FlagsIncludeOrExclude ==
    /\ AfterDividends => (Called("dividends") <=> FlagIsTrue(args.dividends))
    /\ AfterTrades => (Called("order_history") <=> FlagIsTrue(args.trades))

\* the dividends of the account whose "paid at" is not null
PaidDividends ==
    LET Paid(d) == d.paid_at # None
    IN  SelectSeq(account.dividends, Paid)

\* C6: get_robinhood_dividend_data returns one record for each dividend with
\* a non-null paid_at, in source order, none for a null paid_at, and looks up
\* the instruments of the paid dividends only.
C6_OnlyPaidDividends ==
    (pc = "trades" /\ ~dividend_data.is_none) =>
        /\ Len(dividend_data.items) = Len(PaidDividends)
        /\ \A i \in 1..Len(PaidDividends) :
              /\ dividend_data.items[i].amount = PaidDividends[i].amount
              /\ dividend_data.items[i].Date = PaidDividends[i].payable_date
              /\ dividend_data.items[i].ticker
                     = InstrumentSymbol(PaidDividends[i].instrument)
        /\ Len(calls) = 2 + Len(PaidDividends)
        /\ calls[2] = Call("dividends", "")
        /\ \A i \in 1..Len(PaidDividends) :
              calls[2 + i] = Call("get_custom_endpoint", PaidDividends[i].instrument)

\* an unpaid dividend came before a paid one
C6_Witness ==
    /\ pc = "trades"
    /\ ~dividend_data.is_none
    /\ Len(account.dividends) = 2
    /\ account.dividends[1].paid_at = None
    /\ account.dividends[2].paid_at # None
    /\ account.dividends[1].instrument # account.dividends[2].instrument
    /\ Len(dividend_data.items) = 1

\* the last element of a non-empty list
Last(l) == l[Len(l)]

\* the path ends in the four characters .csv
EndsInCsv(p) == Len(p) >= 4 /\ SubSeq(p, Len(p) - 3, Len(p)) = ".csv"

\* the path's file name is a stem, not made of dots alone, followed by .csv
HasCsvExtension(p) ==
    LET name == Last(Split(p, "/"))
        stem == SubSeq(name, 1, Len(name) - 4)
    IN  /\ EndsInCsv(name)
        /\ \E i \in 1..Len(stem) : Char(stem, i) # "."

\* C7 as stated: a path that does not end in .csv fails the check before any
\* file is opened, and a path that ends in .csv passes the check.
C7_EndsInCsvPasses ==
    AfterWrite =>
        /\ ~EndsInCsv(OutputPath) =>
               exception = AssertionError /\ opened = <<>> /\ disk \in Disks
        /\ EndsInCsv(OutputPath) => exception # AssertionError

\* C7, amended: a path without the .csv extension fails the check before any
\* file is opened, created, truncated or written; a path whose file name is a
\* stem followed by .csv passes the check.
C7_ExtensionCheckedBeforeOpen ==
    AfterWrite =>
        /\ ~HasCsvExtension(OutputPath) =>
               exception = AssertionError /\ opened = <<>> /\ disk \in Disks
        /\ HasCsvExtension(OutputPath) => exception # AssertionError

\* write_csv refused out.txt with rows to write and an older file on the disk
C7_Witness ==
    /\ pc = "crashed"
    /\ exception = AssertionError
    /\ OutputPath = "out.txt"
    /\ Len(mint_data) > 0
    /\ disk = OlderFiles

\* YYYY-MM-DD as MM/DD/YYYY, by position
Reordered(d) == SubSeq(d, 6, 7) \o "/" \o SubSeq(d, 9, 10) \o "/" \o SubSeq(d, 1, 4)

\* the lists parse_robinhood_data_to_mint was given; None gives no rows
TradeInput == IF trade_data.is_none THEN <<>> ELSE trade_data.items

DividendInput == IF dividend_data.is_none THEN <<>> ELSE dividend_data.items

\* C8: parse_robinhood_data_to_mint returns one row per record, the trade rows
\* first in the order of the trades, then the dividend rows in the order of the
\* dividends; None or an empty list gives no rows; the lists it was given are
\* still what the fetchers returned.
C8_TradesThenDividends ==
    (pc = "filter") =>
        /\ Len(mint_data) = Len(TradeInput) + Len(DividendInput)
        /\ \A i \in 1..Len(TradeInput) :
              /\ mint_data[i]["Description Original"] = TradeInput[i].ticker
              /\ mint_data[i]["Category"] = TradeInput[i].side
              /\ Len(TradeInput[i].Date) = 10 =>
                     mint_data[i]["Date"] = Reordered(TradeInput[i].Date)
        /\ \A i \in 1..Len(DividendInput) :
              LET row == mint_data[Len(TradeInput) + i]
              IN  /\ row["Description Original"] = DividendInput[i].ticker
                  /\ row["Category"] = None
                  /\ Len(DividendInput[i].Date) = 10 =>
                         row["Date"] = Reordered(DividendInput[i].Date)
        /\ ~trade_data.is_none =>
               trade_data.items = get_robinhood_trade_data(account).data
        /\ ~dividend_data.is_none =>
               dividend_data.items = get_robinhood_dividend_data(account).data

\* parse returned rows for two trades and a dividend
C8_Witness ==
    /\ pc = "filter"
    /\ Len(TradeInput) = 2
    /\ Len(DividendInput) >= 1
    /\ TradeInput[1].ticker # TradeInput[2].ticker
    /\ TradeInput[1].Date # TradeInput[2].Date
    /\ Len(mint_data) >= 3

\* parse returned the dividend rows alone: trade_data was None
C8_WitnessNoTrades ==
    /\ pc = "filter"
    /\ trade_data.is_none
    /\ Len(mint_data) > 0

\* the orders of the account that have an execution
ExecutedOrders ==
    LET Executed(o) == Len(o.executions) > 0
    IN  SelectSeq(account.orders, Executed)

\* C9: get_robinhood_trade_data returns one record for each order with an
\* execution, in order-history order, with the quantity, the price and the
\* date (the timestamp before its "T") of the first execution, and none for an
\* order without executions.
C9_FirstExecutionOnly ==
    (pc = "parse" /\ ~trade_data.is_none) =>
        /\ Len(trade_data.items) = Len(ExecutedOrders)
        /\ \A i \in 1..Len(ExecutedOrders) :
              LET order == ExecutedOrders[i]
                  data == trade_data.items[i]
              IN  /\ data.ticker = InstrumentSymbol(order.instrument)
                  /\ data.side = order.side
                  /\ data.quantity = order.executions[1].quantity
                  /\ data.price = order.executions[1].price
                  /\ data.Date = SubSeq(order.executions[1].timestamp, 1, 10)

\* an order without executions came before an order with two executions
C9_Witness ==
    /\ pc = "parse"
    /\ ~trade_data.is_none
    /\ Len(account.orders) = 2
    /\ Len(account.orders[1].executions) = 0
    /\ Len(account.orders[2].executions) = 2
    /\ Len(trade_data.items) = 1

\* "Investments:" followed by the side
InvestmentsSide(side) ==
    CASE side = "buy" -> "Investments:buy"
      [] side = "sell" -> "Investments:sell"

\* C10: every row has exactly the nine header keys, Transaction Type "credit"
\* and an empty Account Name; a trade row carries ticker, "Investments:" and
\* the side, side, quantity and price; a dividend row carries ticker,
\* "Investments:Dividend Income" and empty Category, Labels and Notes.
C10_FieldMapping ==
    (pc = "filter") =>
        /\ \A i \in 1..Len(mint_data) :
              /\ DOMAIN mint_data[i] = {MINT_HEADERS[k] : k \in 1..Len(MINT_HEADERS)}
              /\ Cardinality(DOMAIN mint_data[i]) = 9
              /\ mint_data[i]["Transaction Type"] = "credit"
              /\ mint_data[i]["Account Name"] = None
        /\ \A i \in 1..Len(TradeInput) :
              /\ mint_data[i]["Description Original"] = TradeInput[i].ticker
              /\ mint_data[i]["Description"] = InvestmentsSide(TradeInput[i].side)
              /\ mint_data[i]["Category"] = TradeInput[i].side
              /\ mint_data[i]["Labels"] = TradeInput[i].quantity
              /\ mint_data[i]["Notes"] = TradeInput[i].price
        /\ \A i \in 1..Len(DividendInput) :
              LET row == mint_data[Len(TradeInput) + i]
              IN  /\ row["Description Original"] = DividendInput[i].ticker
                  /\ row["Description"] = "Investments:Dividend Income"
                  /\ row["Category"] = None
                  /\ row["Labels"] = None
                  /\ row["Notes"] = None

\* parse returned a buy row, a sell row and a dividend row
C10_Witness ==
    /\ pc = "filter"
    /\ Len(TradeInput) = 2
    /\ TradeInput[1].side = "buy"
    /\ TradeInput[2].side = "sell"
    /\ TradeInput[1].quantity # TradeInput[2].quantity
    /\ Len(DividendInput) >= 1
    /\ Len(mint_data) = Len(TradeInput) + Len(DividendInput)

====
